---- MODULE Spec2Model ----
(***************************************************************************)
(* A model of src/pipeline_graph.py: the ten-stage pipeline driven by the  *)
(* compiled graph (build_graph, run_pipeline, run_pipeline_with_trace),    *)
(* the stage functions, and the image fan-out of generate_story_visuals    *)
(* with the rate-limited, retrying _generate_image.                        *)
(*                                                                         *)
(* Text is a sequence of one-character strings, so that strip() and        *)
(* lower() are computed and not assumed.  A JSON value is a record         *)
(* [t |-> type, v |-> value].  Time is discrete, one unit per second, and  *)
(* is kept relative: sinceLastCall is time.monotonic() - _IMG_LAST_CALL    *)
(* and timer[j] is what is left of the time.sleep() job j is in; both are  *)
(* compared only with _IMG_MIN_INTERVAL, so sinceLastCall saturates there. *)
(***************************************************************************)
EXTENDS Integers, Sequences, FiniteSets, TLC

(***************************************************************************)
(* Program constants.                                                      *)
(***************************************************************************)
_IMG_MIN_INTERVAL == 4
_IMG_MAX_RETRIES == 4
_IMG_BASE_BACKOFF == 5
max_workers == 3
max_beats == 6
max_image_steps == 3
max_priority == 5
max_fallback_concepts == 12
max_len == 350
min_word_len == 3

(***************************************************************************)
(* Bounds of the model.                                                    *)
(***************************************************************************)
\* the most image jobs one decomposition may yield in the scheduler runs
MaxJobs == 4
\* the most retryable answers (transient status or fault) the image service
\* gives during one scheduler run, in the scheduler runs
MaxRetryable == 1
\* the most image jobs in the runs that follow one job through all its retries
MaxRetryJobs == 2
MaxEngineJobs == 1

Min(a, b) == IF a < b THEN a ELSE b

RECURSIVE Pow2(_)
Pow2(k) == IF k = 0 THEN 1 ELSE 2 * Pow2(k - 1)

(***************************************************************************)
(* Strings: str.strip() and str.lower() on sequences of characters.        *)
(***************************************************************************)
Whitespace == {" "}

RECURSIVE LStrip(_)
LStrip(s) == IF s # <<>> /\ Head(s) \in Whitespace THEN LStrip(Tail(s)) ELSE s

RECURSIVE RStrip(_)
RStrip(s) ==
    IF s # <<>> /\ s[Len(s)] \in Whitespace
    THEN RStrip(SubSeq(s, 1, Len(s) - 1))
    ELSE s

Strip(s) == RStrip(LStrip(s))

LowerLetters == <<"a", "b", "c", "d", "e", "f", "g", "h", "i", "j", "k", "l", "m", "n", "o", "p", "q", "r", "s", "t", "u", "v", "w", "x", "y", "z">>
UpperLetters == <<"A", "B", "C", "D", "E", "F", "G", "H", "I", "J", "K", "L", "M", "N", "O", "P", "Q", "R", "S", "T", "U", "V", "W", "X", "Y", "Z">>
Digits == {"0", "1", "2", "3", "4", "5", "6", "7", "8", "9"}

LowerChar(c) ==
    IF \E i \in 1..Len(UpperLetters) : UpperLetters[i] = c
    THEN LowerLetters[CHOOSE i \in 1..Len(UpperLetters) : UpperLetters[i] = c]
    ELSE c

Lower(s) == [i \in 1..Len(s) |-> LowerChar(s[i])]

\* list[:n]
Take(s, n) == SubSeq(s, 1, Min(Len(s), n))

(***************************************************************************)
(* JSON values, as json.loads returns them.                                *)
(***************************************************************************)
JDict(f) == [t |-> "dict", v |-> f]
JList(l) == [t |-> "list", v |-> l]
JStr(s) == [t |-> "str", v |-> s]
JBool(b) == [t |-> "bool", v |-> b]
JNull == [t |-> "null", v |-> <<>>]

EmptyDict == JDict(<<>>)

\* dict.get(key, default) on a JSON dict
JGet(d, key, default) == IF key \in DOMAIN d.v THEN d.v[key] ELSE default

\* str(value)
PyStr(j) ==
    CASE j.t = "str" -> j.v
      [] j.t = "null" -> <<"N", "o", "n", "e">>
      [] j.t = "bool" -> IF j.v THEN <<"T", "r", "u", "e">> ELSE <<"F", "a", "l", "s", "e">>
      [] j.t = "list" -> IF j.v = <<>> THEN <<"[", "]">> ELSE <<"[", ".", "]">>
      [] OTHER -> IF DOMAIN j.v = {} THEN <<"{", "}">> ELSE <<"{", ".", "}">>

\* bool(value)
Truthy(j) ==
    CASE j.t = "str" -> j.v # <<>>
      [] j.t = "null" -> FALSE
      [] j.t = "bool" -> j.v
      [] j.t = "list" -> j.v # <<>>
      [] OTHER -> DOMAIN j.v # {}

(***************************************************************************)
(* Text helpers of the stages.                                             *)
(***************************************************************************)
Range(s) == {s[i] : i \in 1..Len(s)}

RECURSIVE Concat(_)
\* "".join(parts)
Concat(parts) == IF parts = <<>> THEN <<>> ELSE Head(parts) \o Concat(Tail(parts))

RECURSIVE Join(_, _)
\* sep.join(parts)
Join(sep, parts) ==
    IF parts = <<>> THEN <<>>
    ELSE IF Len(parts) = 1 THEN parts[1]
    ELSE parts[1] \o sep \o Join(sep, Tail(parts))

WordChars == Range(LowerLetters) \cup Range(UpperLetters) \cup Digits \cup {"_"}

RECURSIVE WordRuns(_, _)
\* the maximal runs of word characters of s, in order; cur is the run being read
WordRuns(s, cur) ==
    IF s = <<>> THEN (IF cur = <<>> THEN <<>> ELSE <<cur>>)
    ELSE IF Head(s) \in WordChars THEN WordRuns(Tail(s), Append(cur, Head(s)))
    ELSE (IF cur = <<>> THEN <<>> ELSE <<cur>>) \o WordRuns(Tail(s), <<>>)

\* whether a whole run matches [a-z][a-z0-9]{2,}
IsWord(w) ==
    /\ Len(w) >= min_word_len
    /\ w[1] \in Range(LowerLetters)
    /\ \A i \in 1..Len(w) : w[i] \in Range(LowerLetters) \cup Digits

\* re.findall(r"\b[a-z][a-z0-9]{2,}\b", text): between two word boundaries the
\* pattern has to take a whole run of word characters
FindWords(text) ==
    LET runs == WordRuns(text, <<>>)
    IN SelectSeq(runs, IsWord)

SentenceEnd == {".", "!", "?"}

RECURSIVE SplitSentences(_, _)
\* re.split(r"(?<=[.!?])\s+", text): cur is the piece being read
SplitSentences(s, cur) ==
    IF s = <<>> THEN <<cur>>
    ELSE IF /\ Head(s) \in Whitespace
            /\ cur # <<>>
            /\ cur[Len(cur)] \in SentenceEnd
         THEN <<cur>> \o SplitSentences(LStrip(s), <<>>)
         ELSE SplitSentences(Tail(s), Append(cur, Head(s)))

RECURSIVE CountOf(_, _)
CountOf(x, s) == IF s = <<>> THEN 0 ELSE (IF Head(s) = x THEN 1 ELSE 0) + CountOf(x, Tail(s))

RECURSIVE Dedup(_, _)
\* the entries of s in first-seen order, each once; seen are those already kept
Dedup(s, seen) ==
    IF s = <<>> THEN <<>>
    ELSE IF Head(s) \in seen THEN Dedup(Tail(s), seen)
    ELSE <<Head(s)>> \o Dedup(Tail(s), seen \cup {Head(s)})

RECURSIVE MostCommon(_, _)
\* Counter(all).most_common(): keys (in first-seen order) by falling count, a
\* tie keeping the first-seen order
MostCommon(keys, all) ==
    IF keys = <<>> THEN <<>>
    ELSE LET best == CHOOSE i \in 1..Len(keys) :
                        /\ \A k \in 1..Len(keys) : CountOf(keys[k], all) <= CountOf(keys[i], all)
                        /\ \A k \in 1..(i - 1) : CountOf(keys[k], all) < CountOf(keys[i], all)
             rest == [k \in 1..(Len(keys) - 1) |-> IF k < best THEN keys[k] ELSE keys[k + 1]]
         IN <<keys[best]>> \o MostCommon(rest, all)

(***************************************************************************)
(* PipelineState: a function from the keys present to their values, as the *)
(* dict the nodes receive and return.                                      *)
(***************************************************************************)
\* state.get(key, default)
Get(s, key, default) == IF key \in DOMAIN s THEN s[key] ELSE default

\* a variant of Merge that keeps only the keys of the update
MergeDroppingAbsent(s, u) == u

\* {**s, **u}; also the graph's merge of a node's update into its channels
Merge(s, u) == [k \in DOMAIN s \cup DOMAIN u |-> IF k \in DOMAIN u THEN u[k] ELSE s[k]]

\* a node's outcome: the dict it returns, or the exception it raises
Returned(u) == [raised |-> FALSE, update |-> u]
Raised == [raised |-> TRUE, update |-> <<>>]

(***************************************************************************)
(* The Gateway: _llm_client, _parse_json and _llm_json.  The environment   *)
(* of a run says whether google.generativeai is importable, whether an API *)
(* key is configured, and what the model answers to each stage's prompt.   *)
(***************************************************************************)
_llm_client(environment) ==
    IF ~environment.genai THEN [client |-> FALSE, status |-> "google-generativeai not installed"]
    ELSE IF ~environment.api_key THEN [client |-> FALSE, status |-> "missing GEMINI_API_KEY/GOOGLE_API_KEY"]
    ELSE [client |-> TRUE, status |-> "ok"]

\* The text of an answer is one of: blank; the JSON text of a value; a JSON
\* object wrapped in other text; text with braces around something that does
\* not parse; text without a JSON object in it.
_parse_json(text) ==
    CASE text.form = "blank" -> EmptyDict
      [] text.form = "json" -> text.value
      [] text.form = "wrapped" -> text.value
      [] text.form = "bad_braces" -> EmptyDict
      [] OTHER -> EmptyDict

\* response.text or "{}"
TextOrBraces(text) == IF text.form = "none" THEN [form |-> "json", value |-> EmptyDict] ELSE text

_llm_json(environment, answer) ==
    LET c == _llm_client(environment)
    IN IF ~c.client THEN [result |-> EmptyDict, status |-> c.status]
       ELSE IF answer.kind = "exception"
            THEN [result |-> EmptyDict, status |-> "gemini request failed"]
            ELSE [result |-> _parse_json(TextOrBraces(answer.text)), status |-> "ok"]

\* whether the stage's call reaches the model (a client exists)
GatewayCalled(environment) == _llm_client(environment).client

(***************************************************************************)
(* The stage functions, each from the state it is given to its outcome.    *)
(***************************************************************************)
store_raw_files(state) ==
    LET files == Get(state, "raw_files", <<>>)
        stored == [i \in 1..Len(files) |-> <<"stored::">> \o files[i]]
    IN Returned(Merge(state, [raw_files |-> stored]))

DummyFrom == <<"d", "u", "m", "m", "y", " ", "e", "x", "t", "r", "a", "c", "t", "e", "d", " ", "t", "e", "x", "t", " ", "f", "r", "o", "m", " ">>
DummyText == <<"d", "u", "m", "m", "y", " ", "e", "x", "t", "r", "a", "c", "t", "e", "d", " ", "t", "e", "x", "t", ".">>

extract_text(state) ==
    LET existing_text == Strip(Get(state, "extracted_text", <<>>))
        files == Get(state, "raw_files", <<>>)
        combined == Join(<<"\n">>, [i \in 1..Len(files) |-> DummyFrom \o files[i]])
    IN IF existing_text # <<>>
       THEN Returned(Merge(state, [extracted_text |-> existing_text]))
       ELSE Returned(Merge(state,
                [extracted_text |-> IF combined = <<>> THEN DummyText ELSE combined]))

RECURSIVE CollapseWhitespace(_)
CollapseWhitespace(s) ==
    IF Len(s) < 2 THEN s
    ELSE IF s[1] \in Whitespace /\ s[2] \in Whitespace THEN CollapseWhitespace(Tail(s))
    ELSE <<s[1]>> \o CollapseWhitespace(Tail(s))

\* agents.preprocessing.text_normalizer.normalize_text: text cleanup
normalize_text(text) == Strip(CollapseWhitespace(text))

clean_text(state) ==
    Returned(Merge(state, [cleaned_text |-> normalize_text(Get(state, "extracted_text", <<>>))]))

RECURSIVE PackChunks(_, _)
\* the loop of chunk_text over the sentences left, current being the chunk open
PackChunks(sentences, current) ==
    IF sentences = <<>> THEN (IF current # <<>> THEN <<current>> ELSE <<>>)
    ELSE LET sentence == Head(sentences)
             candidate == IF current = <<>> THEN sentence ELSE current \o <<" ">> \o sentence
         IN IF Len(candidate) <= max_len
            THEN PackChunks(Tail(sentences), candidate)
            ELSE (IF current # <<>> THEN <<current>> ELSE <<>>)
                 \o PackChunks(Tail(sentences), sentence)

chunk_text(state) ==
    LET text == Get(state, "cleaned_text", <<>>)
        pieces == SplitSentences(text, <<>>)
        stripped == [i \in 1..Len(pieces) |-> Strip(pieces[i])]
        sentences == SelectSeq(stripped, LAMBDA p : p # <<>>)
    IN IF text = <<>>
       THEN Returned(Merge(state, [chunks |-> <<>>]))
       ELSE Returned(Merge(state, [chunks |-> PackChunks(sentences, <<>>)]))

stopwords ==
    {<<"t", "h", "e">>,
     <<"a", "n", "d">>,
     <<"f", "o", "r">>,
     <<"w", "i", "t", "h">>,
     <<"f", "r", "o", "m">>,
     <<"t", "h", "a", "t">>,
     <<"t", "h", "i", "s">>,
     <<"a", "r", "e">>,
     <<"w", "a", "s">>,
     <<"w", "e", "r", "e">>,
     <<"h", "a", "v", "e">>,
     <<"h", "a", "s">>,
     <<"n", "o", "t">>,
     <<"y", "o", "u">>,
     <<"y", "o", "u", "r">>,
     <<"i", "n", "t", "o">>,
     <<"a", "b", "o", "u", "t">>,
     <<"c", "a", "n">>,
     <<"w", "i", "l", "l">>,
     <<"t", "h", "e", "y">>,
     <<"t", "h", "e", "i", "r">>,
     <<"t", "h", "e", "n">>,
     <<"t", "h", "a", "n">>,
     <<"a", "l", "s", "o">>,
     <<"b", "u", "t">>,
     <<"a", "l", "l">>}

\* iterating a JSON value: a list gives its items, a string its characters, a
\* dict its keys
Iterable(j) == j.t \in {"list", "str", "dict"}

RECURSIVE KeysOf(_)
KeysOf(keys) ==
    IF keys = {} THEN <<>>
    ELSE LET k == CHOOSE x \in keys : TRUE IN <<JStr(<<k>>)>> \o KeysOf(keys \ {k})

PyIter(j) ==
    CASE j.t = "list" -> j.v
      [] j.t = "str" -> [i \in 1..Len(j.v) |-> JStr(<<j.v[i]>>)]
      [] OTHER -> KeysOf(DOMAIN j.v)

\* [str(item).strip() for item in items if str(item).strip()]
StrippedNonEmpty(items) ==
    LET all == [i \in 1..Len(items) |-> Strip(PyStr(items[i]))]
    IN SelectSeq(all, LAMBDA x : x # <<>>)

placeholder_concepts == <<<<"core-topic">>, <<"key-idea">>, <<"review-focus">>>>

concept_extraction(state, environment) ==
    LET text == Get(state, "cleaned_text", <<>>)
        llm == _llm_json(environment, environment.answers.concept_extraction)
        llm_result == llm.result
        llm_status == llm.status
        llm_concepts == JGet(llm_result, "concepts", JList(<<>>))
        stripped == StrippedNonEmpty(llm_concepts.v)
        cleaned_llm == [i \in 1..Len(stripped) |-> Lower(stripped[i])]
        words == FindWords(text)
        filtered == SelectSeq(words, LAMBDA w : w \notin stopwords)
        concepts == Take(MostCommon(Dedup(filtered, {}), filtered), max_fallback_concepts)
    IN IF llm_result.t # "dict" THEN Raised
       ELSE IF llm_concepts.t = "list" /\ cleaned_llm # <<>>
       THEN Returned(Merge(state,
                [concepts |-> cleaned_llm, llm_used |-> TRUE, llm_status |-> "ok"]))
       ELSE Returned(Merge(state,
                [concepts |-> IF concepts = <<>> THEN placeholder_concepts ELSE concepts,
                 llm_status |-> llm_status]))

\* a variant of normalize_concepts that drops the duplicates before it
\* trims and lowers the entries
normalize_concepts_dedup_raw(state) ==
    LET concepts == Get(state, "concepts", <<>>)
        raw == Dedup(concepts, {})
        values == [i \in 1..Len(raw) |-> Lower(Strip(raw[i]))]
    IN Returned(Merge(state, [normalized_concepts |-> SelectSeq(values, LAMBDA x : x # <<>>)]))

normalize_concepts(state) ==
    LET concepts == Get(state, "concepts", <<>>)
        values == [i \in 1..Len(concepts) |-> Lower(Strip(concepts[i]))]
        normalized == Dedup(SelectSeq(values, LAMBDA x : x # <<>>), {})
    IN Returned(Merge(state, [normalized_concepts |-> normalized]))

estimate_priority(state) ==
    Returned(Merge(state,
        [priority_concepts |-> Take(Get(state, "normalized_concepts", <<>>), max_priority)]))

general_review == <<"general review">>

select_scenario_seed(state) ==
    LET priority == Get(state, "priority_concepts", <<>>)
        seed == [focus |-> IF priority # <<>> THEN priority[1] ELSE general_review,
                 secondary |-> IF priority # <<>> THEN Tail(priority) ELSE <<>>,
                 mode |-> "deterministic-placeholder"]
    IN Returned(Merge(state, [scenario_seed |-> seed]))

\* the checklist used when the model's own checklist is empty
default_llm_checklist(focus) ==
    << <<"Read and annotate the section around '">> \o focus \o <<"'.">>,
       <<"Write three flashcards from the material.">>,
       <<"Solve one timed practice question.">>,
       <<"Summarize the topic from memory.">> >>

\* a variant of fallback_checklist that always adds the linking task
fallback_checklist_always_linking(focus, secondary) ==
    << <<"Read and annotate the section around '">> \o focus \o <<"'.">>,
       <<"Create 3 flashcards for '">> \o focus \o <<"' and key terms.">>,
       <<"Answer 5 quick self-test questions from the uploaded material.">>,
       <<"Write a 4-line summary from memory.">>,
       <<"Link '">> \o focus \o <<"' with '">>
           \o (IF secondary # <<>> THEN secondary[1] ELSE focus) \o <<"' in one example.">> >>

fallback_checklist(focus, secondary) ==
    LET base == << <<"Read and annotate the section around '">> \o focus \o <<"'.">>,
                   <<"Create 3 flashcards for '">> \o focus \o <<"' and key terms.">>,
                   <<"Answer 5 quick self-test questions from the uploaded material.">>,
                   <<"Write a 4-line summary from memory.">> >>
    IN IF secondary # <<>>
       THEN Append(base, <<"Link '">> \o focus \o <<"' with '">> \o secondary[1]
                          \o <<"' in one example.">>)
       ELSE base

mission_title == <<"L", "a", "s", "t", "M", "i", "n", "u", "t", "e", " ", "M", "i", "s", "s", "i", "o", "n", ":", " ">>

generate_learning_event(state, environment) ==
    LET seed == Get(state, "scenario_seed", <<>>)
        focus == Get(seed, "focus", general_review)
        secondary == Get(seed, "secondary", <<>>)
        concepts == Get(state, "priority_concepts", <<>>)
        llm == _llm_json(environment, environment.answers.generate_learning_event)
        llm_result == llm.result
        llm_status == llm.status
        \* the remote path
        title == Strip(PyStr(JGet(llm_result, "title", JStr(mission_title \o focus))))
        storytelling == Strip(PyStr(JGet(llm_result, "storytelling", JStr(<<>>))))
        llm_checklist == JGet(llm_result, "checklist", JList(<<>>))
        own == StrippedNonEmpty(PyIter(llm_checklist))
        checklist == IF own = <<>> THEN default_llm_checklist(focus) ELSE own
        story == [title |-> title,
                  opening |-> Strip(PyStr(JGet(llm_result, "opening", JStr(<<>>)))),
                  checkpoint |-> Strip(PyStr(JGet(llm_result, "checkpoint", JStr(<<>>)))),
                  boss_level |-> Strip(PyStr(JGet(llm_result, "boss_level", JStr(<<>>))))]
        story_text ==
            IF storytelling # <<>> THEN storytelling
            ELSE title \o <<"\n\nAct 1 - The Briefing:\n">> \o story.opening
                 \o <<"\n\nAct 2 - The Checkpoint:\n">> \o story.checkpoint
                 \o <<"\n\nFinal Boss:\n">> \o story.boss_level
                 \o <<"\n\nMission Checklist:\n- ">> \o Join(<<"\n- ">>, checklist)
        event == [title |-> Lower(title),
                  format |-> "interactive-story",
                  tasks |-> checklist,
                  concepts |-> concepts,
                  interactive_story |-> story,
                  final_storytelling |-> story_text]
        \* the fallback path
        fb_checklist == fallback_checklist(focus, secondary)
        fb_story == [title |-> mission_title \o focus,
                     opening |-> <<"You are 24 hours from the exam. Your mission starts with ">>
                                 \o focus \o <<".">>,
                     checkpoint |-> <<"Unlock the next checkpoint by solving one practice prompt.">>,
                     boss_level |-> <<"Teach the concept back in plain language without notes.">>]
        concepts_text == IF concepts # <<>> THEN Join(<<", ">>, concepts) ELSE <<"core ideas">>
        fb_story_text ==
            fb_story.title \o <<"\n\nAct 1 - The Briefing:\n">> \o fb_story.opening
            \o <<"\n\nAct 2 - The Route:\nYour guide marks these concepts as critical: ">>
            \o concepts_text
            \o <<".\nEvery checkpoint you clear gives you more control of the final exam map.">>
            \o <<"\n\nAct 3 - The Checkpoint:\n">> \o fb_story.checkpoint
            \o <<"\n\nFinal Boss:\n">> \o fb_story.boss_level
            \o <<"\n\nMission Checklist:\n- ">> \o Join(<<"\n- ">>, fb_checklist)
        fb_event == [title |-> <<"mission: ">> \o focus,
                     format |-> "guided practice",
                     tasks |-> fb_checklist,
                     concepts |-> concepts,
                     interactive_story |-> fb_story,
                     final_storytelling |-> fb_story_text]
    IN IF Truthy(llm_result)
       THEN IF llm_result.t # "dict" \/ ~Iterable(llm_checklist)
            THEN Raised
            ELSE Returned(Merge(state,
                    [learning_event |-> event,
                     todo_checklist |-> checklist,
                     interactive_story |-> story,
                     final_storytelling |-> story_text,
                     llm_used |-> TRUE,
                     llm_status |-> "ok"]))
       ELSE Returned(Merge(state,
                [learning_event |-> fb_event,
                 todo_checklist |-> fb_checklist,
                 interactive_story |-> fb_story,
                 final_storytelling |-> fb_story_text,
                 llm_status |-> IF llm_status # "" THEN llm_status
                                ELSE Get(state, "llm_status", "fallback")]))

(***************************************************************************)
(* generate_story_visuals, step 1: the beats and the job list.             *)
(***************************************************************************)
empty_step == [step_label |-> <<>>, prompt |-> <<>>, image_data |-> <<>>]

\* whether raw_steps[:3] and the loop over it run without raising
StepsUsable(raw_steps) ==
    \/ raw_steps.t = "str" /\ raw_steps.v = <<>>
    \/ /\ raw_steps.t = "list"
       /\ \A i \in 1..Min(Len(raw_steps.v), max_image_steps) : raw_steps.v[i].t = "dict"

\* a variant of image_steps_of that forgets the padding
image_steps_unpadded(raw_steps) ==
    LET taken == IF raw_steps.t = "list" THEN Take(raw_steps.v, max_image_steps) ELSE <<>>
    IN [i \in 1..Len(taken) |->
           [step_label |-> Strip(PyStr(JGet(taken[i], "step_label", JStr(<<>>)))),
            prompt |-> Strip(PyStr(JGet(taken[i], "prompt", JStr(<<>>)))),
            image_data |-> <<>>]]

\* the three image steps of a beat: the first three raw steps, padded
image_steps_of(raw_steps) ==
    LET taken == IF raw_steps.t = "list" THEN Take(raw_steps.v, max_image_steps) ELSE <<>>
        made == [i \in 1..Len(taken) |->
                    [step_label |-> Strip(PyStr(JGet(taken[i], "step_label", JStr(<<>>)))),
                     prompt |-> Strip(PyStr(JGet(taken[i], "prompt", JStr(<<>>)))),
                     image_data |-> <<>>]]
    IN made \o [i \in 1..(max_image_steps - Len(made)) |-> empty_step]

\* whether the body of the loop over beats_raw[:6] runs for b without raising
BeatUsable(b) ==
    /\ b.t = "dict"
    /\ StepsUsable(JGet(b, "image_steps", JList(<<>>)))
    /\ Iterable(JGet(b, "choices", JList(<<>>)))

beat_of(b) ==
    [label |-> Strip(PyStr(JGet(b, "label", JStr(<<>>)))),
     narrative |-> Strip(PyStr(JGet(b, "narrative", JStr(<<>>)))),
     is_decision |-> Truthy(JGet(b, "is_decision", JBool(FALSE))),
     choices |-> StrippedNonEmpty(PyIter(JGet(b, "choices", JList(<<>>)))),
     image_steps |-> image_steps_of(JGet(b, "image_steps", JList(<<>>)))]

\* the outcome of step 1: raised; or early, with no beats; or the beats built
decompose(state, environment) ==
    LET story_text == Get(state, "final_storytelling", <<>>)
        llm == _llm_json(environment, environment.answers.generate_story_visuals)
        result == llm.result
        beats_raw == JGet(result, "beats", JList(<<>>))
        taken == Take(beats_raw.v, max_beats)
    IN IF story_text = <<>> THEN [raised |-> FALSE, early |-> TRUE, beats |-> <<>>]
       ELSE IF result.t # "dict" THEN [raised |-> TRUE, early |-> FALSE, beats |-> <<>>]
       ELSE IF beats_raw.t # "list" \/ beats_raw.v = <<>>
            THEN [raised |-> FALSE, early |-> TRUE, beats |-> <<>>]
       ELSE IF \E i \in 1..Len(taken) : ~BeatUsable(taken[i])
            THEN [raised |-> TRUE, early |-> FALSE, beats |-> <<>>]
       ELSE [raised |-> FALSE, early |-> FALSE,
             beats |-> [i \in 1..Len(taken) |-> beat_of(taken[i])]]

RECURSIVE JobsFrom(_, _, _)
\* the job list: (bi, si, prompt) of every step with a prompt, beat by beat
JobsFrom(bs, bi, si) ==
    IF bi > Len(bs) THEN <<>>
    ELSE IF si > Len(bs[bi].image_steps) THEN JobsFrom(bs, bi + 1, 1)
    ELSE (IF bs[bi].image_steps[si].prompt # <<>>
          THEN << <<bi, si, bs[bi].image_steps[si].prompt>> >>
          ELSE <<>>)
         \o JobsFrom(bs, bi, si + 1)

\* a variant of build_jobs that makes a job of every step, prompt or not
build_jobs_of_every_step(bs) ==
    [n \in 1..(Len(bs) * max_image_steps) |->
        LET bi == ((n - 1) \div max_image_steps) + 1
            si == ((n - 1) % max_image_steps) + 1
        IN <<bi, si, bs[bi].image_steps[si].prompt>>]

\* a variant of build_jobs that submits every prompt twice
build_jobs_submitting_twice(bs) == JobsFrom(bs, 1, 1) \o JobsFrom(bs, 1, 1)

build_jobs(bs) == JobsFrom(bs, 1, 1)

(***************************************************************************)
(* The state of the model.                                                 *)
(***************************************************************************)
VARIABLES
    input,          \* the arguments of the calls: [raw_files, extracted_text]
    environment,    \* the collaborators: [genai, api_key, answers, outcomes, retryable]
    todo,           \* the entry points the client still calls, in order
    entry,          \* the entry point running, or ""
    pass,           \* "stream" or "invoke": the graph execution under way, or ""
    executions,     \* graph executions begun by the running call
    node,           \* the index in Stages of the node to run next; 11 at END
    state,          \* the graph's running PipelineState
    executed,       \* the nodes the execution under way has completed, in order
    current_state,  \* run_pipeline_with_trace's current_state
    trace,          \* run_pipeline_with_trace's trace
    returned,       \* what each finished call returned or that it raised, in call order
    llm_calls,      \* the calls of _llm_json made since the running call began
    phase,          \* generate_story_visuals: "" or "pool" while its executor is open
    beats,          \* generate_story_visuals' beats
    jobs,           \* generate_story_visuals' jobs, in submission order
    jpc,            \* per job: where its future is
    attempt,        \* per job: _generate_image's attempt
    timer,          \* per job: seconds left of the time.sleep() it is in
    ret,            \* per job: what _generate_image returned
    hist,           \* per job: the class of every answer so far
    turns,          \* per job: rate-limiter turns taken
    posts,          \* per job: outbound calls issued
    sleeps,         \* per job: the backoff sleeps begun, each with its length
    collected,      \* per job: whether as_completed has handed its future over
    retryable_left, \* retryable answers the image service may still give this run
    _IMG_LOCK,      \* the job holding the lock, or 0
    sinceLastCall,  \* time.monotonic() - _IMG_LAST_CALL, up to _IMG_MIN_INTERVAL
    sinceIssue      \* time since the latest outbound call, up to _IMG_MIN_INTERVAL

envVars == <<input, environment>>
engineVars ==
    <<todo, entry, pass, executions, node, state, executed, current_state, trace, returned,
      llm_calls>>
jobVars == <<jpc, attempt, timer, ret, hist, turns, posts, sleeps, collected, retryable_left>>
poolVars == <<phase, beats, jobs>>
limiterVars == <<_IMG_LOCK, sinceLastCall, sinceIssue>>
vars == <<envVars, engineVars, poolVars, jobVars, limiterVars>>

Stages ==
    <<"store_raw_files", "extract_text", "clean_text", "chunk_text", "concept_extraction",
      "normalize_concepts", "estimate_priority", "select_scenario_seed",
      "generate_learning_event", "generate_story_visuals">>

END == Len(Stages) + 1

\* run_pipeline's initial_state
initial_state_blocking(args) ==
    [raw_files |-> args.raw_files,
     extracted_text |-> args.extracted_text,
     cleaned_text |-> <<>>,
     chunks |-> <<>>,
     concepts |-> <<>>,
     normalized_concepts |-> <<>>,
     priority_concepts |-> <<>>,
     scenario_seed |-> <<>>,
     learning_event |-> <<>>,
     todo_checklist |-> <<>>,
     interactive_story |-> <<>>,
     final_storytelling |-> <<>>,
     story_beats |-> <<>>,
     llm_used |-> FALSE,
     llm_status |-> ""]

\* a variant of initial_state_trace that forgets the extracted text
initial_state_without_text(args) ==
    [raw_files |-> args.raw_files,
     extracted_text |-> <<>>,
     cleaned_text |-> <<>>,
     chunks |-> <<>>,
     concepts |-> <<>>,
     normalized_concepts |-> <<>>,
     priority_concepts |-> <<>>,
     scenario_seed |-> <<>>,
     learning_event |-> <<>>,
     todo_checklist |-> <<>>,
     interactive_story |-> <<>>,
     final_storytelling |-> <<>>,
     llm_used |-> FALSE,
     llm_status |-> ""]

\* run_pipeline_with_trace's initial_state: the same without story_beats
initial_state_trace(args) ==
    [raw_files |-> args.raw_files,
     extracted_text |-> args.extracted_text,
     cleaned_text |-> <<>>,
     chunks |-> <<>>,
     concepts |-> <<>>,
     normalized_concepts |-> <<>>,
     priority_concepts |-> <<>>,
     scenario_seed |-> <<>>,
     learning_event |-> <<>>,
     todo_checklist |-> <<>>,
     interactive_story |-> <<>>,
     final_storytelling |-> <<>>,
     llm_used |-> FALSE,
     llm_status |-> ""]

initial_state(e, args) ==
    IF e = "run_pipeline" THEN initial_state_blocking(args) ELSE initial_state_trace(args)

\* a call of _llm_json by a stage, and whether a client exists, that is
\* whether generate_content is called
llm_call(name, env) == [stage |-> name, sent |-> GatewayCalled(env)]

\* a variant of llm_calls_of in which a stage repeats a call that failed
llm_calls_retrying_failure(name, s, env) ==
    LET calls == IF GatewayCalled(env) /\ env.answers[name].kind = "exception"
                 THEN <<llm_call(name, env), llm_call(name, env)>>
                 ELSE <<llm_call(name, env)>>
    IN CASE name \in {"concept_extraction", "generate_learning_event"} -> calls
         [] name = "generate_story_visuals" ->
               IF Get(s, "final_storytelling", <<>>) = <<>> THEN <<>> ELSE calls
         [] OTHER -> <<>>

\* the calls of _llm_json a stage makes when it runs on the state s
llm_calls_of(name, s, env) ==
    CASE name \in {"concept_extraction", "generate_learning_event"} -> <<llm_call(name, env)>>
      [] name = "generate_story_visuals" ->
            IF Get(s, "final_storytelling", <<>>) = <<>> THEN <<>> ELSE <<llm_call(name, env)>>
      [] OTHER -> <<>>

\* the outcome of one of the first nine nodes on the state s
StageOutcome(name, s, env) ==
    CASE name = "store_raw_files" -> store_raw_files(s)
      [] name = "extract_text" -> extract_text(s)
      [] name = "clean_text" -> clean_text(s)
      [] name = "chunk_text" -> chunk_text(s)
      [] name = "concept_extraction" -> concept_extraction(s, env)
      [] name = "normalize_concepts" -> normalize_concepts(s)
      [] name = "estimate_priority" -> estimate_priority(s)
      [] name = "select_scenario_seed" -> select_scenario_seed(s)
      [] OTHER -> generate_learning_event(s, env)

(***************************************************************************)
(* _state_preview_value.  A string is a sequence of pieces, so its length  *)
(* is the sum of theirs, and a cut value[:n] is kept as [cut, of].         *)
(***************************************************************************)
preview_str_len == 180
preview_list_len == 6

StrKeys == {"extracted_text", "cleaned_text", "final_storytelling", "title", "opening",
            "checkpoint", "boss_level", "focus"}
ListKeys == {"raw_files", "chunks", "concepts", "normalized_concepts", "priority_concepts",
             "todo_checklist", "story_beats", "secondary", "tasks"}
DictKeys == {"scenario_seed", "learning_event", "interactive_story"}

RECURSIVE TextLen(_)
TextLen(s) == IF s = <<>> THEN 0 ELSE Len(Head(s)) + TextLen(Tail(s))

RECURSIVE _state_preview_value(_, _)
_state_preview_value(key, value) ==
    IF key \in StrKeys
    THEN IF TextLen(value) <= preview_str_len THEN value
         ELSE <<[cut |-> preview_str_len, of |-> value, chars |-> TextLen(value)]>>
    ELSE IF key \in ListKeys
    THEN IF Len(value) <= preview_list_len THEN value
         ELSE Append(Take(value, preview_list_len), [items |-> Len(value)])
    ELSE IF key \in DictKeys
    THEN [k \in DOMAIN value |-> _state_preview_value(k, value[k])]
    ELSE value

state_preview(cs) == [k \in DOMAIN cs |-> _state_preview_value(k, cs[k])]


(***************************************************************************)
(* The engine: the compiled graph run by invoke() and by stream().  A node *)
(* gets the running state and its returned dict is merged key by key; an   *)
(* exception raised by a node leaves the graph and the entry point.        *)
(***************************************************************************)
Call(e) ==
    /\ entry = ""
    /\ todo # <<>>
    /\ Head(todo) = e
    /\ todo' = Tail(todo)
    /\ entry' = e
    /\ pass' = IF e = "run_pipeline" THEN "invoke" ELSE "stream"
    /\ executions' = 1
    /\ node' = 1
    /\ state' = initial_state(e, input)
    /\ executed' = <<>>
    /\ current_state' = IF e = "run_pipeline" THEN <<>> ELSE initial_state(e, input)
    /\ trace' = <<>>
    /\ llm_calls' = <<>>
    /\ UNCHANGED <<returned, envVars, poolVars, jobVars, limiterVars>>

run_pipeline == Call("run_pipeline")

run_pipeline_with_trace == Call("run_pipeline_with_trace")

\* a node has returned update: the graph merges it and goes on to the next
\* node; under stream() the update is yielded and the caller's loop records it
Completed(name, update) ==
    /\ state' = Merge(state, update)
    /\ executed' = Append(executed, name)
    /\ node' = node + 1
    /\ IF pass = "stream"
       THEN /\ current_state' = Merge(current_state, update)
            /\ trace' = Append(trace,
                   [node |-> name,
                    updated_fields |-> DOMAIN update,
                    state_preview |-> state_preview(Merge(current_state, update))])
       ELSE UNCHANGED <<current_state, trace>>
    /\ UNCHANGED <<todo, entry, pass, executions, returned>>

\* a node has raised: nothing catches the exception, the call ends with it
Propagate ==
    /\ returned' = Append(returned,
           [entry |-> entry, raised |-> TRUE, at |-> Stages[node],
            final_state |-> <<>>, trace |-> <<>>])
    /\ entry' = ""
    /\ pass' = ""
    /\ node' = 0
    /\ state' = <<>>
    /\ current_state' = <<>>
    /\ trace' = <<>>
    /\ UNCHANGED <<todo, executions, executed>>

\* one of the nine nodes before generate_story_visuals runs
RunNode ==
    /\ pass # ""
    /\ node \in 1..(Len(Stages) - 1)
    /\ LET out == StageOutcome(Stages[node], state, environment)
       IN IF out.raised THEN Propagate ELSE Completed(Stages[node], out.update)
    /\ llm_calls' = llm_calls \o llm_calls_of(Stages[node], state, environment)
    /\ UNCHANGED <<envVars, poolVars, jobVars, limiterVars>>

\* PIPELINE_GRAPH.invoke() returns to run_pipeline, which returns the state
run_pipeline_return ==
    /\ entry = "run_pipeline"
    /\ node = END
    /\ returned' = Append(returned,
           [entry |-> entry, raised |-> FALSE, at |-> "",
            final_state |-> state, trace |-> <<>>])
    /\ entry' = ""
    /\ pass' = ""
    /\ node' = 0
    /\ state' = <<>>
    /\ UNCHANGED <<todo, executions, executed, current_state, trace, llm_calls>>
    /\ UNCHANGED <<envVars, poolVars, jobVars, limiterVars>>

\* the stream is exhausted: run_pipeline_with_trace calls invoke() on the
\* same initial_state
invoke_after_stream ==
    /\ entry = "run_pipeline_with_trace"
    /\ pass = "stream"
    /\ node = END
    /\ pass' = "invoke"
    /\ executions' = executions + 1
    /\ node' = 1
    /\ state' = initial_state(entry, input)
    /\ executed' = <<>>
    /\ UNCHANGED <<todo, entry, current_state, trace, returned, llm_calls>>
    /\ UNCHANGED <<envVars, poolVars, jobVars, limiterVars>>

\* run_pipeline_with_trace returns invoke()'s state and the trace
run_pipeline_with_trace_return ==
    /\ entry = "run_pipeline_with_trace"
    /\ pass = "invoke"
    /\ node = END
    /\ returned' = Append(returned,
           [entry |-> entry, raised |-> FALSE, at |-> "",
            final_state |-> state, trace |-> trace])
    /\ entry' = ""
    /\ pass' = ""
    /\ node' = 0
    /\ state' = <<>>
    /\ current_state' = <<>>
    /\ trace' = <<>>
    /\ UNCHANGED <<todo, executions, executed, llm_calls>>
    /\ UNCHANGED <<envVars, poolVars, jobVars, limiterVars>>

(***************************************************************************)
(* generate_story_visuals: step 1, the pool of step 2, and its return.     *)
(***************************************************************************)
J == 1..Len(jobs)

generate_story_visuals ==
    /\ pass # ""
    /\ node = Len(Stages)
    /\ phase = ""
    /\ LET d == decompose(state, environment)
           js == build_jobs(d.beats)
       IN IF d.raised
          THEN Propagate /\ UNCHANGED <<poolVars, jobVars>>
          ELSE IF d.early
          THEN /\ Completed("generate_story_visuals", Merge(state, [story_beats |-> <<>>]))
               /\ UNCHANGED <<poolVars, jobVars>>
          ELSE /\ phase' = "pool"
               /\ beats' = d.beats
               /\ jobs' = js
               /\ jpc' = [j \in 1..Len(js) |-> "queued"]
               /\ attempt' = [j \in 1..Len(js) |-> 0]
               /\ timer' = [j \in 1..Len(js) |-> 0]
               /\ ret' = [j \in 1..Len(js) |-> <<>>]
               /\ hist' = [j \in 1..Len(js) |-> <<>>]
               /\ turns' = [j \in 1..Len(js) |-> 0]
               /\ posts' = [j \in 1..Len(js) |-> 0]
               /\ sleeps' = [j \in 1..Len(js) |-> <<>>]
               /\ collected' = [j \in 1..Len(js) |-> FALSE]
               /\ retryable_left' = environment.retryable
               /\ UNCHANGED <<todo, entry, pass, executions, node, state, executed,
                               current_state, trace, returned>>
    /\ llm_calls' = llm_calls \o llm_calls_of("generate_story_visuals", state, environment)
    /\ UNCHANGED <<envVars, limiterVars>>

\* the jobs a pool thread is working on
Running == {j \in J : jpc[j] \notin {"queued", "done"}}

\* _generate_image has returned value for job j
Finish(j, value) ==
    /\ jpc' = [jpc EXCEPT ![j] = "done"]
    /\ ret' = [ret EXCEPT ![j] = value]

\* a variant of Start with a thread for every job
StartWithoutLimit(j) ==
    /\ phase = "pool"
    /\ j \in J
    /\ jpc[j] = "queued"
    /\ \A i \in J : i < j => jpc[i] # "queued"
    /\ IF ~environment.api_key
       THEN Finish(j, <<>>)
       ELSE jpc' = [jpc EXCEPT ![j] = "lock"] /\ UNCHANGED ret
    /\ UNCHANGED <<attempt, timer, hist, turns, posts, sleeps, collected, retryable_left>>
    /\ UNCHANGED <<envVars, engineVars, poolVars, limiterVars>>

\* a free pool thread takes the oldest queued job: _gen_step_image calls
\* _generate_image, which reads the API key
Start(j) ==
    /\ phase = "pool"
    /\ j \in J
    /\ jpc[j] = "queued"
    /\ \A i \in J : i < j => jpc[i] # "queued"
    /\ Cardinality(Running) < max_workers
    /\ IF ~environment.api_key
       THEN Finish(j, <<>>)
       ELSE jpc' = [jpc EXCEPT ![j] = "lock"] /\ UNCHANGED ret
    /\ UNCHANGED <<attempt, timer, hist, turns, posts, sleeps, collected, retryable_left>>
    /\ UNCHANGED <<envVars, engineVars, poolVars, limiterVars>>

\* a variant of Acquire that does not sleep for the rest of the interval
AcquireWithoutWait(j) ==
    /\ j \in J
    /\ jpc[j] = "lock"
    /\ _IMG_LOCK = 0
    /\ _IMG_LOCK' = j
    /\ timer' = [timer EXCEPT ![j] = 0]
    /\ jpc' = [jpc EXCEPT ![j] = "turn"]
    /\ UNCHANGED <<attempt, ret, hist, turns, posts, sleeps, collected, retryable_left>>
    /\ UNCHANGED <<envVars, engineVars, poolVars, sinceLastCall, sinceIssue>>

\* with _IMG_LOCK: now, wait, and the start of time.sleep(wait) if wait > 0
Acquire(j) ==
    /\ j \in J
    /\ jpc[j] = "lock"
    /\ _IMG_LOCK = 0
    /\ _IMG_LOCK' = j
    /\ LET wait == _IMG_MIN_INTERVAL - sinceLastCall
       IN timer' = [timer EXCEPT ![j] = IF wait > 0 THEN wait ELSE 0]
    /\ jpc' = [jpc EXCEPT ![j] = "turn"]
    /\ UNCHANGED <<attempt, ret, hist, turns, posts, sleeps, collected, retryable_left>>
    /\ UNCHANGED <<envVars, engineVars, poolVars, sinceLastCall, sinceIssue>>

\* _IMG_LAST_CALL = time.monotonic(), and the lock is released
Stamp(j) ==
    /\ j \in J
    /\ jpc[j] = "turn"
    /\ timer[j] = 0
    /\ sinceLastCall' = 0
    /\ _IMG_LOCK' = 0
    /\ turns' = [turns EXCEPT ![j] = @ + 1]
    /\ jpc' = [jpc EXCEPT ![j] = "post"]
    /\ UNCHANGED <<attempt, timer, ret, hist, posts, sleeps, collected, retryable_left>>
    /\ UNCHANGED <<envVars, engineVars, poolVars, sinceIssue>>

\* _http.post(...) issues the request
Post(j) ==
    /\ j \in J
    /\ jpc[j] = "post"
    /\ posts' = [posts EXCEPT ![j] = @ + 1]
    /\ sinceIssue' = 0
    /\ jpc' = [jpc EXCEPT ![j] = "inflight"]
    /\ UNCHANGED <<attempt, timer, ret, hist, turns, sleeps, collected, retryable_left>>
    /\ UNCHANGED <<envVars, engineVars, poolVars, _IMG_LOCK, sinceLastCall>>

Outcomes == {"image", "image_untyped", "noimage", "transient", "permanent", "fault"}
Retryable == {"transient", "fault"}

\* the data URL made of an answer's inline data; the data the service
\* returns for a job is named after the job's place
Payload(j, o) ==
    <<"data:", IF o = "image" THEN "image/jpeg" ELSE "image/png", ";base64,",
      <<"image", jobs[j][1], jobs[j][2]>> >>

\* a variant of Backoff that grows by the base, not by doubling
BackoffLinear(k) == _IMG_BASE_BACKOFF * (k + 1)

Backoff(k) == _IMG_BASE_BACKOFF * Pow2(k)

\* time.sleep(backoff) begins
Sleep(j) ==
    /\ timer' = [timer EXCEPT ![j] = Backoff(attempt[j])]
    /\ sleeps' = [sleeps EXCEPT ![j] = Append(@, Backoff(attempt[j]))]
    /\ jpc' = [jpc EXCEPT ![j] = "backoff"]
    /\ UNCHANGED ret

\* a variant of Handle that treats a fault like a transient error on the
\* last attempt too
HandleFaultAsTransient(j, o) ==
    CASE o \in {"transient", "fault"} -> Sleep(j)
      [] o \in {"permanent", "noimage"} -> Finish(j, <<>>) /\ UNCHANGED <<timer, sleeps>>
      [] OTHER -> Finish(j, Payload(j, o)) /\ UNCHANGED <<timer, sleeps>>

\* a variant of Handle that retries an answer without an image
HandleRetryingEmptyAnswer(j, o) ==
    CASE o \in {"transient", "noimage"} -> Sleep(j)
      [] o = "permanent" -> Finish(j, <<>>) /\ UNCHANGED <<timer, sleeps>>
      [] o \in {"image", "image_untyped"} -> Finish(j, Payload(j, o)) /\ UNCHANGED <<timer, sleeps>>
      [] OTHER ->
            IF attempt[j] < _IMG_MAX_RETRIES - 1
            THEN Sleep(j)
            ELSE Finish(j, <<>>) /\ UNCHANGED <<timer, sleeps>>

\* a variant of Handle that retries a permanent error like a transient one
HandleRetryingPermanent(j, o) ==
    CASE o \in {"transient", "permanent"} -> Sleep(j)
      [] o = "noimage" -> Finish(j, <<>>) /\ UNCHANGED <<timer, sleeps>>
      [] o \in {"image", "image_untyped"} -> Finish(j, Payload(j, o)) /\ UNCHANGED <<timer, sleeps>>
      [] OTHER ->
            IF attempt[j] < _IMG_MAX_RETRIES - 1
            THEN Sleep(j)
            ELSE Finish(j, <<>>) /\ UNCHANGED <<timer, sleeps>>

\* the rest of one pass through the loop body, by the class of the answer
Handle(j, o) ==
    CASE o = "transient" -> Sleep(j)
      [] o = "permanent" -> Finish(j, <<>>) /\ UNCHANGED <<timer, sleeps>>
      [] o = "noimage" -> Finish(j, <<>>) /\ UNCHANGED <<timer, sleeps>>
      [] o \in {"image", "image_untyped"} -> Finish(j, Payload(j, o)) /\ UNCHANGED <<timer, sleeps>>
      [] OTHER ->
            IF attempt[j] < _IMG_MAX_RETRIES - 1
            THEN Sleep(j)
            ELSE Finish(j, <<>>) /\ UNCHANGED <<timer, sleeps>>

\* the answer to the request arrives, or the request fails
Respond(j, o) ==
    /\ j \in J
    /\ jpc[j] = "inflight"
    /\ o \in environment.outcomes
    /\ o \in Retryable => retryable_left > 0
    /\ retryable_left' = IF o \in Retryable THEN retryable_left - 1 ELSE retryable_left
    /\ hist' = [hist EXCEPT ![j] = Append(@, o)]
    /\ Handle(j, o)
    /\ UNCHANGED <<attempt, turns, posts, collected>>
    /\ UNCHANGED <<envVars, engineVars, poolVars, limiterVars>>

\* a variant of Wake that retries the request without a new turn
WakeSkippingTurn(j) ==
    /\ j \in J
    /\ jpc[j] = "backoff"
    /\ timer[j] = 0
    /\ IF attempt[j] + 1 < _IMG_MAX_RETRIES
       THEN /\ attempt' = [attempt EXCEPT ![j] = @ + 1]
            /\ jpc' = [jpc EXCEPT ![j] = "post"]
            /\ UNCHANGED ret
       ELSE Finish(j, <<>>) /\ UNCHANGED attempt
    /\ UNCHANGED <<timer, hist, turns, posts, sleeps, collected, retryable_left>>
    /\ UNCHANGED <<envVars, engineVars, poolVars, limiterVars>>

\* a variant of Wake that gives up one attempt early
WakeGivingUpEarly(j) ==
    /\ j \in J
    /\ jpc[j] = "backoff"
    /\ timer[j] = 0
    /\ IF attempt[j] + 2 < _IMG_MAX_RETRIES
       THEN /\ attempt' = [attempt EXCEPT ![j] = @ + 1]
            /\ jpc' = [jpc EXCEPT ![j] = "lock"]
            /\ UNCHANGED ret
       ELSE Finish(j, <<>>) /\ UNCHANGED attempt
    /\ UNCHANGED <<timer, hist, turns, posts, sleeps, collected, retryable_left>>
    /\ UNCHANGED <<envVars, engineVars, poolVars, limiterVars>>

\* the sleep is over: the next pass of the loop, or the loop's end and return None
Wake(j) ==
    /\ j \in J
    /\ jpc[j] = "backoff"
    /\ timer[j] = 0
    /\ IF attempt[j] + 1 < _IMG_MAX_RETRIES
       THEN /\ attempt' = [attempt EXCEPT ![j] = @ + 1]
            /\ jpc' = [jpc EXCEPT ![j] = "lock"]
            /\ UNCHANGED ret
       ELSE Finish(j, <<>>) /\ UNCHANGED attempt
    /\ UNCHANGED <<timer, hist, turns, posts, sleeps, collected, retryable_left>>
    /\ UNCHANGED <<envVars, engineVars, poolVars, limiterVars>>

\* a variant of Collect that stores every image in the beat's first step
CollectIntoFirstStep(j) ==
    /\ phase = "pool"
    /\ j \in J
    /\ jpc[j] = "done"
    /\ ~collected[j]
    /\ collected' = [collected EXCEPT ![j] = TRUE]
    /\ beats' = IF ret[j] # <<>>
                THEN [beats EXCEPT ![jobs[j][1]].image_steps[1].image_data = ret[j]]
                ELSE beats
    /\ UNCHANGED <<phase, jobs>>
    /\ UNCHANGED <<jpc, attempt, timer, ret, hist, turns, posts, sleeps, retryable_left>>
    /\ UNCHANGED <<envVars, engineVars, limiterVars>>

\* as_completed hands over job j's future; the calling thread stores the image
Collect(j) ==
    /\ phase = "pool"
    /\ j \in J
    /\ jpc[j] = "done"
    /\ ~collected[j]
    /\ collected' = [collected EXCEPT ![j] = TRUE]
    /\ beats' = IF ret[j] # <<>>
                THEN [beats EXCEPT ![jobs[j][1]].image_steps[jobs[j][2]].image_data = ret[j]]
                ELSE beats
    /\ UNCHANGED <<phase, jobs>>
    /\ UNCHANGED <<jpc, attempt, timer, ret, hist, turns, posts, sleeps, retryable_left>>
    /\ UNCHANGED <<envVars, engineVars, limiterVars>>

\* a variant of generate_story_visuals_return that returns on the first result
ReturnOnFirstResult ==
    /\ phase = "pool"
    /\ \/ J = {}
       \/ \E j \in J : collected[j]
    /\ phase' = ""
    /\ Completed("generate_story_visuals", Merge(state, [story_beats |-> beats]))
    /\ UNCHANGED <<beats, jobs, llm_calls>>
    /\ UNCHANGED <<envVars, jobVars, limiterVars>>

\* every future is handed over and the executor has shut down: the node returns
generate_story_visuals_return ==
    /\ phase = "pool"
    /\ \A j \in J : collected[j]
    /\ phase' = ""
    /\ Completed("generate_story_visuals", Merge(state, [story_beats |-> beats]))
    /\ UNCHANGED <<beats, jobs, llm_calls>>
    /\ UNCHANGED <<envVars, jobVars, limiterVars>>

\* one second passes
Tick ==
    /\ timer' = [j \in DOMAIN timer |-> IF timer[j] > 0 THEN timer[j] - 1 ELSE 0]
    /\ sinceLastCall' = Min(sinceLastCall + 1, _IMG_MIN_INTERVAL)
    /\ sinceIssue' = Min(sinceIssue + 1, _IMG_MIN_INTERVAL)
    /\ UNCHANGED <<jpc, attempt, ret, hist, turns, posts, sleeps, collected, retryable_left>>
    /\ UNCHANGED <<envVars, engineVars, poolVars, _IMG_LOCK>>

(***************************************************************************)
(* The inputs and the collaborators' answers the runs are drawn from.      *)
(***************************************************************************)
text_force == <<"f", "o", "r", "c", "e", " ", "e", "q", "u", "a", "l", "s", " ", "m", "a", "s", "s", " ", "t", "i", "m", "e", "s", " ", "a", "c", "c", "e", "l", "e", "r", "a", "t", "i", "o", "n", ".">>
text_no_word == <<"a", "b", " ", "T", "h", "e", " ", "x", "_", "y">>

Exception == [kind |-> "exception", text |-> [form |-> "none"]]
Answer(text) == [kind |-> "content", text |-> text]
JsonText(value) == [form |-> "json", value |-> value]

concepts_answer ==
    Answer(JsonText(JDict([concepts |->
        JList(<<JStr(<<" ", "F", "o", "r", "c", "e">>), JStr(<<"m", "a", "s", "s">>),
                JStr(<<"f", "o", "r", "c", "e", " ">>), JStr(<<" ">>)>>)])))

story_answer ==
    Answer(JsonText(JDict(
        [title |-> JStr(<<"T", "i", "t", "l", "e">>),
         storytelling |-> JStr(<<"s", "t", "o", "r", "y">>),
         checklist |-> JList(<<JStr(<<"d", "o">>), JStr(<<" ">>)>>),
         opening |-> JStr(<<"o">>),
         checkpoint |-> JStr(<<"c">>),
         boss_level |-> JStr(<<"b">>)])))

raw_step(prompt) == JDict([step_label |-> JStr(<<"s">>), prompt |-> JStr(prompt)])

raw_beat(steps) ==
    JDict([label |-> JStr(<<"l">>),
           narrative |-> JStr(<<"n">>),
           is_decision |-> JBool(FALSE),
           choices |-> JList(<<>>),
           image_steps |-> JList(steps)])

p1 == <<"p">>
blank == <<" ">>

\* beats with 0, 1, 3 and 5 raw steps
beat0 == raw_beat(<<>>)
beat1 == raw_beat(<<raw_step(p1)>>)
beat3 == raw_beat(<<raw_step(p1), raw_step(blank), raw_step(<<" ", "p">>)>>)
beat5 == raw_beat(<<raw_step(p1), raw_step(p1), raw_step(p1), raw_step(p1), raw_step(p1)>>)

BeatLists ==
    {<<beat0>>, <<beat1>>, <<beat3>>, <<beat5>>, <<beat1, beat5>>, <<beat3, beat5>>,
     <<beat5, beat5>>}

JobCount(bs) == Len(build_jobs([i \in 1..Len(bs) |-> beat_of(bs[i])]))

beats_answer(bs) == Answer(JsonText(JDict([beats |-> JList(bs)])))

\* the beats answers that yield at most n jobs
BeatsAnswers(n) == {beats_answer(bs) : bs \in {b \in BeatLists : JobCount(b) <= n}}

InitWith(Todos, Inputs, Environments) ==
    /\ todo \in Todos
    /\ input \in Inputs
    /\ environment \in Environments
    /\ entry = ""
    /\ pass = ""
    /\ executions = 0
    /\ node = 0
    /\ state = <<>>
    /\ executed = <<>>
    /\ current_state = <<>>
    /\ trace = <<>>
    /\ returned = <<>>
    /\ llm_calls = <<>>
    /\ phase = ""
    /\ beats = <<>>
    /\ jobs = <<>>
    /\ jpc = <<>>
    /\ attempt = <<>>
    /\ timer = <<>>
    /\ ret = <<>>
    /\ hist = <<>>
    /\ turns = <<>>
    /\ posts = <<>>
    /\ sleeps = <<>>
    /\ collected = <<>>
    /\ retryable_left = 0
    /\ _IMG_LOCK = 0
    /\ sinceLastCall = _IMG_MIN_INTERVAL
    /\ sinceIssue = _IMG_MIN_INTERVAL

PoolStep ==
    \/ \E j \in J : Start(j)
    \/ \E j \in J : Acquire(j)
    \/ \E j \in J : Stamp(j)
    \/ \E j \in J : Post(j)
    \/ \E j \in J, o \in Outcomes : Respond(j, o)
    \/ \E j \in J : Wake(j)
    \/ \E j \in J : Collect(j)

\* a client that calls run_pipeline
NextBlocking ==
    \/ run_pipeline
    \/ RunNode
    \/ generate_story_visuals
    \/ PoolStep
    \/ generate_story_visuals_return
    \/ run_pipeline_return
    \/ Tick

\* a client that calls run_pipeline and run_pipeline_with_trace
Next ==
    \/ NextBlocking
    \/ run_pipeline_with_trace
    \/ invoke_after_stream
    \/ run_pipeline_with_trace_return

one_input == [raw_files |-> <<<<"f">>>>, extracted_text |-> text_force]

SchedulerOutcomes == {"image", "transient", "permanent"}

\* The scheduler runs: one blocking call whose text stages take the remote
\* path, every beats answer of at most MaxJobs jobs, and an image service
\* that answers
\* with an image, a permanent error or, at most MaxRetryable times, a
\* retryable error.
SchedulerEnvironments ==
    {[genai |-> TRUE, api_key |-> TRUE,
      answers |-> [concept_extraction |-> concepts_answer,
                   generate_learning_event |-> story_answer,
                   generate_story_visuals |-> b],
      outcomes |-> SchedulerOutcomes,
      retryable |-> MaxRetryable] : b \in BeatsAnswers(MaxJobs)}

Init == InitWith({<<"run_pipeline">>}, {one_input}, SchedulerEnvironments)

Spec == Init /\ [][NextBlocking]_vars

\* The retry runs: as the scheduler runs, with at most MaxRetryJobs jobs and
\* as many retryable answers as one job can take.
RetryEnvironments ==
    {[genai |-> TRUE, api_key |-> TRUE,
      answers |-> [concept_extraction |-> concepts_answer,
                   generate_learning_event |-> story_answer,
                   generate_story_visuals |-> b],
      outcomes |-> Outcomes,
      retryable |-> _IMG_MAX_RETRIES] : b \in BeatsAnswers(MaxRetryJobs)}

InitRetry == InitWith({<<"run_pipeline">>}, {one_input}, RetryEnvironments)

SpecRetry == InitRetry /\ [][NextBlocking]_vars

\* The engine runs: a blocking call and then a traced call on the same
\* input, with well-formed and malformed Gateway answers, with and without
\* the client library and the API key, at most MaxEngineJobs image jobs and
\* an image service that gives every request the same answer.
EngineInputs ==
    {one_input,
     [raw_files |-> <<<<"f">>, <<"g">>>>, extracted_text |-> <<>>],
     [raw_files |-> <<>>, extracted_text |-> text_no_word]}

ConceptAnswers ==
    {concepts_answer,
     Exception,
     Answer(JsonText(JList(<<>>))),
     Answer(JsonText(JDict([concepts |-> JStr(<<"m", "a", "s", "s">>)])))}

StoryAnswers ==
    {story_answer,
     Answer([form |-> "blank"]),
     Answer(JsonText(JList(<<JStr(<<"s">>)>>)))}

MalformedBeatsAnswers ==
    {Answer(JsonText(JList(<<>>))),
     beats_answer(<<JStr(<<"b">>)>>)}

EngineOutcomes == {{"image"}, {"permanent"}, {"transient"}}

EngineEnvironments ==
    {[genai |-> g, api_key |-> k,
      answers |-> [concept_extraction |-> c,
                   generate_learning_event |-> s,
                   generate_story_visuals |-> b],
      outcomes |-> o,
      retryable |-> _IMG_MAX_RETRIES] :
        g \in BOOLEAN, k \in BOOLEAN, c \in ConceptAnswers, s \in StoryAnswers,
        b \in BeatsAnswers(MaxEngineJobs) \cup MalformedBeatsAnswers,
        o \in EngineOutcomes}

InitEngine ==
    InitWith({<<"run_pipeline", "run_pipeline_with_trace">>}, EngineInputs, EngineEnvironments)

SpecEngine == InitEngine /\ [][Next]_vars

\* The Gateway runs: one blocking call on each input, with the Gateway
\* absent, failing, answering well and answering badly in each of its three
\* stages, at most MaxEngineJobs image jobs and an image service that answers
\* with an image or, at most MaxRetryable times, with a transient error.
text_mass == <<"m", "a", "s", "s">>

GatewayInputs == EngineInputs \cup {[raw_files |-> <<>>, extracted_text |-> text_mass]}

\* a JSON object without any of the fields the story prompt asks for
story_answer_without_fields == Answer(JsonText(JDict([note |-> JStr(<<"n">>)])))

GatewayStoryAnswers == StoryAnswers \cup {Exception, story_answer_without_fields}

GatewayBeatsAnswers == BeatsAnswers(MaxEngineJobs) \cup MalformedBeatsAnswers \cup {Exception}

GatewayEnvironments ==
    {[genai |-> g, api_key |-> k,
      answers |-> [concept_extraction |-> c,
                   generate_learning_event |-> s,
                   generate_story_visuals |-> b],
      outcomes |-> {"image", "transient"},
      retryable |-> MaxRetryable] :
        g \in BOOLEAN, k \in BOOLEAN, c \in ConceptAnswers, s \in GatewayStoryAnswers,
        b \in GatewayBeatsAnswers}

InitGateway == InitWith({<<"run_pipeline">>}, GatewayInputs, GatewayEnvironments)

SpecGateway == InitGateway /\ [][NextBlocking]_vars

\* The normalization runs: normalize_concepts is applied to a state with a
\* concept list of at most MaxConcepts entries, and then to a state whose
\* concept list is its own output.
MaxConcepts == 3

ConceptItems ==
    {<<>>, <<" ">>, <<"a">>, <<"A">>, <<" ", "a">>, <<"a", " ">>, <<"b">>, <<"B", " ">>,
     <<"a", "b">>, <<"a", " ", "b">>}

ConceptLists == UNION {[1..n -> ConceptItems] : n \in 0..MaxConcepts}

no_collaborators ==
    [genai |-> FALSE, api_key |-> FALSE,
     answers |-> [concept_extraction |-> Exception,
                  generate_learning_event |-> Exception,
                  generate_story_visuals |-> Exception],
     outcomes |-> {},
     retryable |-> 0]

\* normalize_concepts(input)
normalize ==
    /\ "concepts" \in DOMAIN input
    /\ node = 0
    /\ state' = normalize_concepts(input).update
    /\ node' = 1
    /\ UNCHANGED <<todo, entry, pass, executions, executed, current_state, trace, returned,
                   llm_calls>>
    /\ UNCHANGED <<envVars, poolVars, jobVars, limiterVars>>

\* normalize_concepts on the concept list that normalize_concepts returned
normalize_again ==
    /\ "concepts" \in DOMAIN input
    /\ node = 1
    /\ current_state' = normalize_concepts([concepts |-> state.normalized_concepts]).update
    /\ node' = 2
    /\ UNCHANGED <<todo, entry, pass, executions, state, executed, trace, returned, llm_calls>>
    /\ UNCHANGED <<envVars, poolVars, jobVars, limiterVars>>

NextNormalize ==
    \/ normalize
    \/ normalize_again

InitNormalize == InitWith({<<>>}, {[concepts |-> l] : l \in ConceptLists}, {no_collaborators})

SpecNormalize == InitNormalize /\ [][NextNormalize]_vars

(***************************************************************************)
(* The properties.                                                         *)
(***************************************************************************)
Last(s) == s[Len(s)]

\* job j was answered at least once and every answer was a transient error
AllTransient(j) == hist[j] # <<>> /\ \A i \in 1..Len(hist[j]) : hist[j][i] = "transient"

\* job j ended in Success: its last answer carried an image
Success(j) == hist[j] # <<>> /\ Last(hist[j]) \in {"image", "image_untyped"}

\* generate_story_visuals has returned and the engine has merged its update
SchedulerReturned == entry # "" /\ phase = "" /\ node = END

\* C1: any two outbound image calls, of any jobs and attempts, are issued at
\* least _IMG_MIN_INTERVAL seconds apart: whenever a request is posted, the
\* previous request was posted at least _IMG_MIN_INTERVAL seconds earlier.
C1_CallsIssuedMinIntervalApart ==
    [][\A j \in J : Post(j) => sinceIssue >= _IMG_MIN_INTERVAL]_vars

C1_Witness ==
    \E j \in J : jpc[j] = "post" /\ posts[j] = 1 /\ sinceIssue < _IMG_MIN_INTERVAL

\* C2: a job whose every call is answered with a transient error never makes
\* more than _IMG_MAX_RETRIES calls, and when _generate_image has returned it
\* has made exactly _IMG_MAX_RETRIES calls and has returned no image.
C2_TransientJobMakesMaxAttempts ==
    \A j \in J :
        AllTransient(j) =>
            /\ posts[j] <= _IMG_MAX_RETRIES
            /\ jpc[j] = "done" => posts[j] = _IMG_MAX_RETRIES /\ ret[j] = <<>>

C2_Witness ==
    \E j \in J : AllTransient(j) /\ jpc[j] = "done" /\ collected[j]

\* C3: once a call of a job is answered with a permanent error, on whichever
\* attempt, the job has failed at once: _generate_image has returned no
\* image, and the job has made no call, taken no turn and begun no sleep
\* after that answer (one call and one turn per answer, one sleep per
\* earlier answer).
C3_PermanentErrorFailsAtOnce ==
    \A j \in J :
        (hist[j] # <<>> /\ \E i \in 1..Len(hist[j]) : hist[j][i] = "permanent") =>
            /\ Last(hist[j]) = "permanent"
            /\ jpc[j] = "done"
            /\ ret[j] = <<>>
            /\ posts[j] = Len(hist[j])
            /\ turns[j] = Len(hist[j])
            /\ Len(sleeps[j]) = Len(hist[j]) - 1

C3_Witness ==
    \E j \in J : Len(hist[j]) >= 3 /\ Last(hist[j]) = "permanent" /\ collected[j]

\* C4: while the pool works the beats are not published, and the stage is
\* left only by its return, with every job terminal and story_beats
\* published: no failure of a job ends the stage early or raises.
C4_ReturnsAfterAllJobsTerminal ==
    /\ [](phase = "pool" => node = Len(Stages) /\ Get(state, "story_beats", <<>>) = <<>>)
    /\ [][phase = "pool" /\ phase' # "pool" =>
            /\ \A j \in J : jpc[j] = "done"
            /\ node' = END
            /\ executed' = Append(executed, "generate_story_visuals")
            /\ state'.story_beats = beats]_vars

C4_Witness ==
    /\ SchedulerReturned
    /\ Len(jobs) = MaxJobs
    /\ \E j \in J : ~Success(j) /\ Len(hist[j]) = 2
    /\ \E j \in J : Success(j)

\* C5: when the scheduler has returned, an image step's image_data is
\* non-empty exactly if the step has a prompt and its job ended in Success,
\* it is then that job's payload, and the number of non-empty image steps is
\* the number of jobs less the number of failed jobs.
C5_ImageExactlyForSuccessfulJobs ==
    SchedulerReturned =>
        LET sb == state.story_beats
            Steps == (DOMAIN sb) \X (1..max_image_steps)
            NonEmpty == {p \in Steps : sb[p[1]].image_steps[p[2]].image_data # <<>>}
            Failed == {j \in J : ~Success(j)}
        IN /\ \A p \in Steps :
                 p \in NonEmpty <=>
                    /\ sb[p[1]].image_steps[p[2]].prompt # <<>>
                    /\ \E j \in J : jobs[j][1] = p[1] /\ jobs[j][2] = p[2] /\ Success(j)
           /\ \A j \in J :
                 Success(j) =>
                    sb[jobs[j][1]].image_steps[jobs[j][2]].image_data = Payload(j, Last(hist[j]))
           /\ Cardinality(NonEmpty) = Len(jobs) - Cardinality(Failed)

C5_Witness ==
    /\ SchedulerReturned
    /\ Len(jobs) = MaxJobs
    /\ Cardinality({j \in J : ~Success(j)}) = 2
    /\ \E bi \in DOMAIN state.story_beats : state.story_beats[bi].image_steps[3].image_data # <<>>

\* the raw steps the Gateway gave for beat bi
RawSteps(bi) ==
    environment.answers.generate_story_visuals.text.value.v.beats.v[bi].v.image_steps.v

\* C6: from decomposition to the end of the scheduler run every beat has
\* exactly 3 image steps, whatever the number of raw steps: the first raw
\* steps, at most 3, in their order, then empty placeholders.
C6_ThreeImageStepsPerBeat ==
    /\ \A bi \in DOMAIN beats :
          /\ Len(beats[bi].image_steps) = 3
          /\ \A si \in 1..3 :
                IF si <= Len(RawSteps(bi))
                THEN beats[bi].image_steps[si].prompt = Strip(RawSteps(bi)[si].v.prompt.v)
                ELSE beats[bi].image_steps[si] = empty_step
    /\ SchedulerReturned =>
          \A bi \in DOMAIN state.story_beats : Len(state.story_beats[bi].image_steps) = 3

C6_Witness ==
    /\ SchedulerReturned
    /\ \E bi \in DOMAIN beats : Len(RawSteps(bi)) = 1
    /\ \E bi \in DOMAIN beats : Len(RawSteps(bi)) = 5

\* the calls of entry point e that have ended
Ended(e) == {i \in DOMAIN returned : returned[i].entry = e}

\* C7: on the same input and with the same answers of the collaborators, a
\* call of run_pipeline and a call of run_pipeline_with_trace end alike, with
\* the same final state; and while the trace is built the stages run as in
\* a blocking run and the traced state is the state the stages compute.
C7_TraceAndBlockingAgree ==
    /\ \A i \in Ended("run_pipeline"), k \in Ended("run_pipeline_with_trace") :
          /\ returned[i].raised = returned[k].raised
          /\ returned[i].at = returned[k].at
          /\ ~returned[i].raised => returned[i].final_state = returned[k].final_state
    /\ (entry = "run_pipeline_with_trace" /\ pass = "stream") =>
          /\ executed = SubSeq(Stages, 1, node - 1)
          /\ current_state = state
          /\ Len(trace) = Len(executed)

C7_Witness ==
    /\ Ended("run_pipeline") # {}
    /\ \E k \in Ended("run_pipeline_with_trace") :
          /\ ~returned[k].raised
          /\ Len(returned[k].trace) = Len(Stages)
          /\ returned[k].final_state.llm_used
          /\ \E bi \in DOMAIN returned[k].final_state.story_beats :
                returned[k].final_state.story_beats[bi].image_steps[1].image_data # <<>>

\* the node the engine is about to run raises
StageRaises ==
    /\ pass # ""
    /\ \/ /\ node \in 1..(Len(Stages) - 1)
          /\ StageOutcome(Stages[node], state, environment).raised
       \/ /\ node = Len(Stages)
          /\ phase = ""
          /\ decompose(state, environment).raised

\* C8: when a stage raises, the engine catches the fault, leaves the running
\* state as it was and goes on to the next stage.
C8_EngineCatchesStageFault ==
    [][StageRaises /\ node' # node => node' = node + 1 /\ state' = state]_vars

C8_Witness ==
    \E i \in DOMAIN returned : returned[i].raised /\ returned[i].at = "concept_extraction"

\* C9: every call of an entry point completes by returning a final state:
\* a call never ends otherwise.
C9_EveryRunReturnsFinalState ==
    [][(entry # "" /\ entry' = "") => ~returned'[Len(returned')].raised]_vars

C9_Witness ==
    /\ todo = <<>>
    /\ entry = ""
    /\ \E i \in DOMAIN returned : returned[i].raised /\ returned[i].at = "generate_story_visuals"

\* C10: in a blocking run the stages run in the configured order, each once
\* and each after the merge of the one before, so that the run ends with all
\* ten executed.
C10_TenStagesOnceInOrder ==
    /\ entry = "run_pipeline" => executed = SubSeq(Stages, 1, node - 1)
    /\ (entry = "" /\ returned # <<>> /\ Last(returned).entry = "run_pipeline") =>
          executed = Stages

C10_Witness ==
    /\ entry = ""
    /\ returned # <<>>
    /\ Last(returned).entry = "run_pipeline"
    /\ Len(executed) < Len(Stages)

\* the stages of a run execute in the configured order, none twice
StagesInOrder == pass # "" => executed = SubSeq(Stages, 1, node - 1)

\* a key absent from a node's update keeps its value: the merge changes only
\* the keys of the update
MergeKeepsAbsentKeys ==
    [][\A k \in DOMAIN state :
          (entry' = entry /\ node' = node + 1 /\ state'[k] # state[k]) =>
              \/ /\ node < Len(Stages)
                 /\ k \in DOMAIN StageOutcome(Stages[node], state, environment).update
                 /\ state'[k] = StageOutcome(Stages[node], state, environment).update[k]
              \/ node = Len(Stages) /\ k = "story_beats"]_vars

\* whether value is the empty value of field k: False for llm_used, the empty
\* string for llm_status, no items (an empty string, list or record) otherwise
EmptyField(k, value) ==
    IF k = "llm_used" THEN value = FALSE
    ELSE IF k = "llm_status" THEN value = ""
    ELSE DOMAIN value = {}

\* the step of the engine from a node that has returned to the next node
StageStep == pass # "" /\ pass' = pass /\ entry' = entry /\ node' = node + 1

\* C11: no stage clears a field: a field of the state that is non-empty
\* before a stage, whether a stage or the caller has set it, is in the state
\* and non-empty after it; so llm_used and llm_status, once set by
\* concept_extraction, stay set through the later stages.
C11_FieldsNeverCleared ==
    [][StageStep =>
          \A k \in DOMAIN state :
              ~EmptyField(k, state[k]) => k \in DOMAIN state' /\ ~EmptyField(k, state'[k])]_vars

C11_Witness ==
    /\ entry # ""
    /\ node = END
    /\ state.llm_used
    /\ state.llm_status = "ok"
    /\ state.learning_event.format = "guided practice"
    /\ state.concepts # <<>>

\* the fields PipelineState declares
PipelineState ==
    {"raw_files", "extracted_text", "cleaned_text", "chunks", "concepts",
     "normalized_concepts", "priority_concepts", "scenario_seed", "learning_event",
     "todo_checklist", "interactive_story", "final_storytelling", "story_beats",
     "llm_used", "llm_status"}

\* the Gateway is unavailable for the whole run: there is no client, or every
\* call of the model fails
GatewayUnavailable ==
    \/ ~_llm_client(environment).client
    \/ \A st \in DOMAIN environment.answers : environment.answers[st].kind = "exception"

\* C12: in a run without the Gateway no image job is scheduled and no image
\* call is made, and the run returns a state with every declared field, a
\* non-empty concept list, a checklist of 4 items, or of 5 exactly when there
\* is a secondary concept, no story beats and llm_used false.
C12_PureFallbackRun ==
    GatewayUnavailable =>
        /\ phase = ""
        /\ jobs = <<>>
        /\ \A i \in DOMAIN returned :
              /\ ~returned[i].raised
              /\ LET fs == returned[i].final_state
                 IN /\ DOMAIN fs = PipelineState
                    /\ fs.concepts # <<>>
                    /\ Len(fs.todo_checklist) \in {4, 5}
                    /\ Len(fs.todo_checklist) = 5 <=> fs.scenario_seed.secondary # <<>>
                    /\ fs.story_beats = <<>>
                    /\ fs.llm_used = FALSE

C12_Witness ==
    /\ GatewayUnavailable
    /\ input.extracted_text = text_mass
    /\ returned # <<>>
    /\ Len(returned[1].final_state.todo_checklist) = 4
    /\ returned[1].final_state.llm_status = "gemini request failed"

\* C13: during a scheduler run the image_data of an image step changes only
\* from empty to non-empty, so it is written at most once and never
\* overwritten or cleared, and only in a step that has a prompt; nothing
\* else of the beats changes.
C13_ImageWrittenOnce ==
    [][phase = "pool" =>
          /\ DOMAIN beats' = DOMAIN beats
          /\ \A bi \in DOMAIN beats :
                /\ [beats'[bi] EXCEPT !.image_steps = beats[bi].image_steps] = beats[bi]
                /\ Len(beats'[bi].image_steps) = Len(beats[bi].image_steps)
                /\ \A si \in DOMAIN beats[bi].image_steps :
                      LET old == beats[bi].image_steps[si]
                          new == beats'[bi].image_steps[si]
                      IN /\ new.step_label = old.step_label
                         /\ new.prompt = old.prompt
                         /\ new.image_data # old.image_data =>
                               /\ old.image_data = <<>>
                               /\ new.image_data # <<>>
                               /\ old.prompt # <<>>]_vars

C13_Witness ==
    /\ phase = "pool"
    /\ \A j \in J : collected[j]
    /\ \E bi \in DOMAIN beats :
          /\ beats[bi].image_steps[1].image_data # <<>>
          /\ beats[bi].image_steps[2].prompt = <<>>
          /\ beats[bi].image_steps[2].image_data = <<>>
          /\ beats[bi].image_steps[3].image_data # <<>>

\* C14: at most 3 jobs are being executed at any moment, and a queued job
\* starts only when fewer than 3 are, that is when a worker is free.
C14_AtMostThreeJobsExecuting ==
    /\ [](Cardinality(Running) <= 3)
    /\ [][phase = "pool" =>
             \A j \in J :
                 (jpc[j] = "queued" /\ jpc'[j] # "queued") => Cardinality(Running) < 3]_vars

C14_Witness ==
    /\ Len(jobs) > 3
    /\ Cardinality(Running) = 3
    /\ \E j \in J : jpc[j] = "queued"
    /\ \E j \in J : jpc[j] = "inflight"
    /\ \E j \in J : jpc[j] = "backoff"

\* the state of the pool's workers: where each job is, and the rate limiter
workerVars == <<jpc, attempt, timer, ret, hist, turns, posts, sleeps, retryable_left, limiterVars>>

\* C15: the beats are written by the calling thread alone, as it takes over
\* a finished job's result: a step that changes the beats is no step of a
\* worker and stores that job's result in that job's slot; and no two jobs
\* have the same slot (beat index, step index), so no two writes meet.
C15_SingleWriterDistinctSlots ==
    /\ [](\A j1 \in J, j2 \in J :
             j1 # j2 => <<jobs[j1][1], jobs[j1][2]>> # <<jobs[j2][1], jobs[j2][2]>>)
    /\ [][(phase = "pool" /\ beats' # beats) =>
             /\ workerVars' = workerVars
             /\ \E j \in J :
                   /\ jpc[j] = "done"
                   /\ ~collected[j]
                   /\ collected' = [collected EXCEPT ![j] = TRUE]
                   /\ beats' = [beats EXCEPT
                                  ![jobs[j][1]].image_steps[jobs[j][2]].image_data = ret[j]]]_vars

C15_Witness ==
    /\ phase = "pool"
    /\ \E j \in J : jpc[j] = "inflight"
    /\ \E j1 \in J, j2 \in J :
          /\ j1 < j2
          /\ jobs[j1][1] = jobs[j2][1]
          /\ collected[j1] /\ collected[j2]
          /\ beats[jobs[j1][1]].image_steps[jobs[j1][2]].image_data # <<>>
          /\ beats[jobs[j2][1]].image_steps[jobs[j2][2]].image_data # <<>>

\* C16: every call of a job, first or retry, follows a turn of its own: a
\* job about to post has taken one turn more than it has made calls, and
\* otherwise as many; a turn is stamped under the lock once the interval
\* since the last stamp has passed, and the lock is released with the
\* stamp; a call is issued by a job that holds no lock, and the lock is held
\* only during a turn, never during a call or a backoff.
C16_EachCallAfterOwnTurn ==
    /\ [](\A j \in J :
             /\ turns[j] = IF jpc[j] = "post" THEN posts[j] + 1 ELSE posts[j]
             /\ _IMG_LOCK = j <=> jpc[j] = "turn")
    /\ [][phase = "pool" =>
             \A j \in J :
                 /\ posts'[j] # posts[j] =>
                       /\ posts'[j] = posts[j] + 1
                       /\ jpc[j] = "post"
                       /\ _IMG_LOCK # j
                 /\ turns'[j] # turns[j] =>
                       /\ turns'[j] = turns[j] + 1
                       /\ _IMG_LOCK = j
                       /\ sinceLastCall >= _IMG_MIN_INTERVAL
                       /\ sinceLastCall' = 0
                       /\ _IMG_LOCK' = 0]_vars

C16_Witness ==
    \E j \in J, i \in J :
        /\ jpc[j] = "inflight"
        /\ posts[j] = 3
        /\ turns[j] = 3
        /\ jpc[i] = "backoff"

\* C17: a fault of a call on an attempt before the last is followed, like a
\* transient failure of that attempt, by the backoff of that attempt and
\* then a new attempt, so the job has not ended; a fault on the last
\* attempt ends the job at once without a sleep and without an image; and
\* the job's fault leaves the stage running: the pool phase ends only by
\* the stage's return.
C17_FaultRetriedThenSwallowed ==
    /\ [](\A j \in J :
             \A i \in 1..Len(hist[j]) :
                 hist[j][i] = "fault" =>
                     IF i < _IMG_MAX_RETRIES
                     THEN /\ Len(sleeps[j]) >= i
                          /\ sleeps[j][i] = _IMG_BASE_BACKOFF * Pow2(i - 1)
                          /\ i = Len(hist[j]) => jpc[j] # "done"
                     ELSE /\ jpc[j] = "done"
                          /\ ret[j] = <<>>
                          /\ Len(sleeps[j]) = _IMG_MAX_RETRIES - 1)
    /\ [][(phase = "pool" /\ phase' # "pool") =>
             executed' = Append(executed, "generate_story_visuals")]_vars

C17_Witness ==
    /\ SchedulerReturned
    /\ \E j \in J : Len(hist[j]) = _IMG_MAX_RETRIES /\ \A i \in 1..Len(hist[j]) : hist[j][i] = "fault"
    /\ \E j \in J : Success(j)

\* C18: an answer with status 200 and no usable image ends the job on that
\* attempt, whichever it is, without an image: it is the job's last answer,
\* and no call, turn or sleep follows it.
C18_EmptyAnswerFailsWithoutRetry ==
    \A j \in J :
        \A i \in 1..Len(hist[j]) :
            hist[j][i] = "noimage" =>
                /\ i = Len(hist[j])
                /\ jpc[j] = "done"
                /\ ret[j] = <<>>
                /\ posts[j] = i
                /\ turns[j] = i
                /\ Len(sleeps[j]) = i - 1

C18_Witness ==
    /\ \E j \in J : hist[j] = <<"noimage">> /\ collected[j]
    /\ \E j \in J : Len(hist[j]) = _IMG_MAX_RETRIES /\ Last(hist[j]) = "noimage"

\* the stages that consult the Gateway
GatewayStages == {"concept_extraction", "generate_learning_event", "generate_story_visuals"}

\* what the stage's call of _llm_json returns in this run
GatewayResult(st) == _llm_json(environment, environment.answers[st])

\* whether the stage, run on the state, calls _llm_json at all:
\* generate_story_visuals returns before the call when there is no story
Consults(st) == st = "generate_story_visuals" => Get(state, "final_storytelling", <<>>) # <<>>

\* concept_extraction returns from its remote branch
concept_remote_path ==
    LET llm_result == GatewayResult("concept_extraction").result
        llm_concepts == JGet(llm_result, "concepts", JList(<<>>))
    IN /\ llm_result.t = "dict"
       /\ llm_concepts.t = "list"
       /\ StrippedNonEmpty(llm_concepts.v) # <<>>

\* generate_learning_event enters its remote branch
story_remote_path == Truthy(GatewayResult("generate_learning_event").result)

\* generate_story_visuals got beats and went on to the image jobs
visuals_remote_path == phase = "pool"

RemotePathTaken(st) ==
    CASE st = "concept_extraction" -> concept_remote_path
      [] st = "generate_learning_event" -> story_remote_path
      [] OTHER -> visuals_remote_path

\* the stage at the node to run finishes in this step, by returning or raising
StageEnds(st) ==
    /\ pass # ""
    /\ node \in DOMAIN Stages
    /\ Stages[node] = st
    /\ Consults(st)
    /\ node' # node

\* C19: when a stage that consulted the Gateway returns, the state it returns
\* has as llm_status the status of that stage's own Gateway call and as
\* llm_used whether that stage took its remote path.
C19_StagesRecordGatewayUse ==
    [][\A st \in GatewayStages :
          (StageEnds(st) /\ StageStep) =>
              /\ state'.llm_status = GatewayResult(st).status
              /\ state'.llm_used = RemotePathTaken(st)]_vars

\* the run has returned a state that says the remote path was used and the
\* status is "ok", while the Gateway call of generate_story_visuals failed
C19_Witness ==
    /\ returned # <<>>
    /\ ~returned[1].raised
    /\ GatewayResult("generate_story_visuals").status = "gemini request failed"
    /\ returned[1].final_state.llm_status = "ok"
    /\ returned[1].final_state.llm_used

\* the fields each stage's prompt requires of the object
RequiredFields(st) ==
    CASE st = "concept_extraction" -> {"concepts"}
      [] st = "generate_learning_event" ->
            {"title", "storytelling", "checklist", "opening", "checkpoint", "boss_level"}
      [] OTHER -> {"beats"}

\* the extracted object is a record with the stage's required fields
ValidObject(st) ==
    LET r == GatewayResult(st).result
    IN r.t = "dict" /\ RequiredFields(st) \subseteq DOMAIN r.v

\* the state shows the stage's fallback output
FallbackTaken(st, s) ==
    CASE st = "concept_extraction" -> s.llm_status = GatewayResult(st).status
      [] st = "generate_learning_event" -> s.learning_event.format = "guided practice"
      [] OTHER -> s.story_beats = <<>>

\* C20: a stage whose Gateway call yields an empty object, an object that is
\* not a record, or a record without the stage's required fields returns its
\* fallback output, without raising and without setting llm_used.
C20_InvalidObjectFallsBack ==
    [][\A st \in GatewayStages :
          (StageEnds(st) /\ ~ValidObject(st)) =>
              /\ StageStep
              /\ state'.llm_used = state.llm_used
              /\ FallbackTaken(st, state')]_vars

\* the run has returned a story of the remote path, with llm_used set by
\* generate_learning_event, from an object with none of the required fields
C20_Witness ==
    /\ returned # <<>>
    /\ ~returned[1].raised
    /\ environment.answers.generate_learning_event = story_answer_without_fields
    /\ ~concept_remote_path
    /\ returned[1].final_state.learning_event.format = "interactive-story"
    /\ returned[1].final_state.llm_used

\* the calls of _llm_json that stage st has made in the running call
CallsBy(st) == SelectSeq(llm_calls, LAMBDA c : c.stage = st)

\* the stage at the node to run begins, and with it runs up to its return,
\* its raise or the opening of its pool
StageBegins(st) ==
    /\ pass # ""
    /\ node \in DOMAIN Stages
    /\ Stages[node] = st
    /\ phase = ""
    /\ node' # node \/ phase' = "pool"

\* C21: in a blocking run every execution of a stage that consults the
\* Gateway adds exactly one call of the Gateway, made with or without a
\* client and whatever the answer, and nothing else adds a call: so no
\* stage has made more than one call and the run no more than 3.
C21_OneGatewayCallPerStage ==
    /\ [](/\ Len(llm_calls) <= 3
          /\ \A st \in GatewayStages : Len(CallsBy(st)) <= 1
          /\ \A i \in DOMAIN llm_calls : llm_calls[i].stage \in GatewayStages)
    /\ [][IF \E st \in GatewayStages : StageBegins(st)
          THEN llm_calls' = Append(llm_calls, llm_call(Stages[node], environment))
          ELSE llm_calls' = llm_calls \/ (entry = "" /\ llm_calls' = <<>>)]_vars

C21_Witness ==
    /\ returned # <<>>
    /\ ~returned[1].raised
    /\ Len(llm_calls) = 3
    /\ llm_calls[1].sent
    /\ environment.answers.concept_extraction.kind = "exception"
    /\ environment.answers.generate_learning_event.kind = "exception"

\* C22: the i-th sleep of a job follows the failure of its i-th attempt, a
\* transient status or a fault, and lasts 5, 10, 20, 40 seconds for
\* i = 1..4, that is 5 * 2^k for attempt k = i - 1, twice the sleep before
\* it; a sleep begun lasts that long.
C22_BackoffDoubles ==
    /\ [](\A j \in J :
             \A i \in 1..Len(sleeps[j]) :
                 /\ i <= 4
                 /\ i <= Len(hist[j])
                 /\ hist[j][i] \in {"transient", "fault"}
                 /\ sleeps[j][i] = <<5, 10, 20, 40>>[i]
                 /\ i > 1 => sleeps[j][i] = 2 * sleeps[j][i - 1])
    /\ [][\A j \in J :
             (j \in DOMAIN sleeps' /\ sleeps'[j] # sleeps[j]) =>
                 /\ sleeps'[j] = Append(sleeps[j], 5 * Pow2(attempt[j]))
                 /\ timer'[j] = 5 * Pow2(attempt[j])
                 /\ Len(sleeps[j]) = attempt[j]]_vars

C22_Witness ==
    \E j \in J :
        /\ sleeps[j] = <<5, 10, 20, 40>>
        /\ hist[j][1] = "fault"
        /\ hist[j][2] = "transient"
        /\ hist[j][4] = "transient"

\* the index of the first entry of the concept list that normalizes to x
FirstSeen(x) ==
    CHOOSE i \in 1..Len(input.concepts) :
        /\ Lower(Strip(input.concepts[i])) = x
        /\ \A k \in 1..(i - 1) : Lower(Strip(input.concepts[k])) # x

\* C23: the output of normalize_concepts has no empty entry and no entry
\* twice, holds exactly the trimmed and lowered entries of the list that are
\* not empty, in the order in which each is first seen, and
\* normalize_concepts applied to it returns it unchanged.
C23_NormalizationIdempotent ==
    node >= 1 =>
        LET out == state.normalized_concepts
            values == {Lower(Strip(input.concepts[i])) : i \in 1..Len(input.concepts)}
        IN /\ \A i \in 1..Len(out) : out[i] # <<>>
           /\ \A i \in 1..Len(out) : \A k \in 1..Len(out) : i # k => out[i] # out[k]
           /\ {out[i] : i \in 1..Len(out)} = values \ {<<>>}
           /\ \A i \in 1..(Len(out) - 1) : FirstSeen(out[i]) < FirstSeen(out[i + 1])
           /\ node = 2 => current_state.normalized_concepts = out

C23_Witness ==
    /\ node = 2
    /\ input.concepts = <<<<"B", " ">>, <<" ", "a">>, <<"b">>>>
    /\ state.normalized_concepts = <<<<"b">>, <<"a">>>>
    /\ current_state.normalized_concepts = <<<<"b">>, <<"a">>>>

\* C24: the age of _IMG_LAST_CALL changes only as time passes, when it
\* grows and the timestamp stays, or as the holder of the lock ends its turn
\* by writing the present time, when the timestamp replaced is at least 4
\* seconds old: so the timestamp never decreases and every write is at
\* least 4 seconds later than the last.
C24_TimestampAdvancesByMinInterval ==
    [][\/ sinceLastCall' = sinceLastCall
       \/ /\ sinceLastCall' > sinceLastCall
          /\ _IMG_LOCK' = _IMG_LOCK
          /\ turns' = turns
       \/ /\ sinceLastCall' = 0
          /\ sinceLastCall >= 4
          /\ _IMG_LOCK \in J
          /\ jpc[_IMG_LOCK] = "turn"
          /\ turns'[_IMG_LOCK] = turns[_IMG_LOCK] + 1]_vars

\* two jobs have written the timestamp, a third holds the lock and sleeps
\* for the rest of the interval, and a fourth waits for the lock
C24_Witness ==
    \E i \in J, j \in J, k \in J, l \in J :
        /\ i # j
        /\ turns[i] >= 1
        /\ turns[j] >= 1
        /\ _IMG_LOCK = k
        /\ timer[k] > 0
        /\ sinceLastCall < 4
        /\ jpc[l] = "lock"

\* C25: while a call of run_pipeline_with_trace runs, and when it has
\* returned, the graph has been executed once: no Gateway stage has made
\* more than one call of the Gateway, as in a blocking run, and the pool of
\* image jobs is opened in the first execution only.
C25_TracedRunExecutesOnce ==
    (entry = "run_pipeline_with_trace" \/
     (returned # <<>> /\ Last(returned).entry = "run_pipeline_with_trace" /\ entry = "")) =>
        /\ executions = 1
        /\ \A st \in GatewayStages : Len(CallsBy(st)) <= 1
        /\ phase = "pool" => pass = "stream"

\* the traced call has returned a trace of ten records and a final state
\* after two executions of the graph, six calls of the Gateway and image
\* jobs in both
C25_Witness ==
    /\ entry = ""
    /\ returned # <<>>
    /\ Last(returned).entry = "run_pipeline_with_trace"
    /\ ~Last(returned).raised
    /\ Len(Last(returned).trace) = Len(Stages)
    /\ executions = 2
    /\ Len(llm_calls) = 6
    /\ jobs # <<>>
    /\ Last(returned).final_state.story_beats[1].image_steps[1].image_data # <<>>

\* C26: in the state of a run after concept_extraction, and in the final
\* state a run returns, llm_status is "ok" exactly if llm_used is true.
C26_StatusOkIffUsed ==
    /\ (pass # "" /\ node > 5) => (state.llm_status = "ok" <=> state.llm_used)
    /\ \A i \in DOMAIN returned :
          ~returned[i].raised =>
              (returned[i].final_state.llm_status = "ok" <=> returned[i].final_state.llm_used)

\* a run has returned llm_used true with the status of a failed call
C26_Witness ==
    /\ returned # <<>>
    /\ ~returned[1].raised
    /\ returned[1].final_state.llm_used
    /\ returned[1].final_state.llm_status = "gemini request failed"

\* C27: a job begins at most _IMG_MAX_RETRIES - 1 sleeps, and once the
\* answer to its last call has come, whether a transient status or a fault,
\* _generate_image has returned without another sleep.
C27_NoSleepAfterFinalAttempt ==
    \A j \in J :
        /\ Len(sleeps[j]) <= _IMG_MAX_RETRIES - 1
        /\ Len(hist[j]) = _IMG_MAX_RETRIES => jpc[j] = "done"

\* a job sleeps 40 seconds after the transient status of its fourth call
C27_Witness ==
    \E j \in J :
        /\ Len(hist[j]) = _IMG_MAX_RETRIES
        /\ Last(hist[j]) = "transient"
        /\ posts[j] = _IMG_MAX_RETRIES
        /\ jpc[j] = "backoff"
        /\ timer[j] = 40
        /\ Len(sleeps[j]) = _IMG_MAX_RETRIES

====
